---- MODULE Spec2Model ----
(***************************************************************************)
(* syncNFTMetadata.js: a periodic sweep that reads owner and tokenURI of   *)
(* every token id from the chain (with RPC endpoint rotation), fetches the *)
(* metadata document, and upserts one row per token into the "metadata"    *)
(* table, preserving or wiping the listing columns.                        *)
(*                                                                         *)
(* JavaScript runs the tasks of a batch on one event loop: a task runs     *)
(* without interruption from one await to the next, so every action below  *)
(* is the continuation that runs when one awaited call settles.            *)
(***************************************************************************)
EXTENDS Integers, Sequences, FiniteSets, TLC

VARIABLES
    RPC_LIST,        \* the endpoint list (line 23); slot 1 is the env primary
    providerIndex,   \* the rotation cursor (line 38)
    provider,        \* the endpoint the global provider points at (line 46)
    nftContract,     \* the global contract binding (line 57)
    metadataTable,   \* the "metadata" table: tokenid string -> row
    mainpc,          \* where main() is suspended
    totalSupply,     \* main's totalSupply (line 206)
    i,               \* main's loop variable (line 211)
    batch,           \* main's current batch (line 212)
    task,            \* token id -> the locals of its processNFT call
    batches,         \* history: every batch main has formed, in order
    world,           \* what the chain and the gateways can answer in this run
    fetch,           \* a fetchMetadataWithRetry call followed request by request
    link,            \* a resolveLink call: its arguments and what it returned
    getProviderLog   \* history: what each getProvider() call returned

vars == <<RPC_LIST, providerIndex, provider, nftContract, metadataTable,
          mainpc, totalSupply, i, batch, task, batches, world, fetch, link,
          getProviderLog>>

-----------------------------------------------------------------------------
(* Bounds of the model *)

\* largest total supply when the tasks run step by step in the full world
MaxSupply == 1
\* largest total supply when the tasks run step by step in the plain world
MaxConcurrent == 2
\* largest total supply when only the batching is followed
MaxTotalSupply == 25
MaxTailLen == 2
MaxLive == 2

-----------------------------------------------------------------------------
(* JavaScript values *)

NULL == "<null>"
UNDEFINED == "<undefined>"
NullRec == [null |-> TRUE]
UndefRec == [undefined |-> TRUE]

\* JS truthiness of a string-or-null value
Truthy(v) == v # NULL /\ v # UNDEFINED /\ v # ""

\* String.prototype.toLowerCase on the address strings of the model
ToLowerCase(s) ==
    CASE s = "0xAb" -> "0xab"
      [] s = "0xCd" -> "0xcd"
      [] OTHER -> s

-----------------------------------------------------------------------------
(* Configuration *)

NFT_CONTRACT_ADDRESS == "0xNFT"
MARKETPLACE_CONTRACT_ADDRESS == "0xSEAPORT"
FALLBACK_RPC == "https://rpc.apechain.com/http"
BATCH_SIZE == 10

\* process.env.APECHAIN_RPC: set, or absent
EnvPrimary == {"https://primary.rpc", UNDEFINED}

RpcList(primary) ==
    <<primary, "https://rpc.apechain.com/http", "https://apechain.drpc.org",
      "https://33139.rpc.thirdweb.com">>

\* getProvider(): the endpoint returned and the cursor after the call
GetProvider(list, idx) ==
    LET rpc == list[(idx % Len(list)) + 1]
    IN  IF ~Truthy(rpc)
        THEN [rpc |-> FALLBACK_RPC, providerIndex |-> idx]
        ELSE [rpc |-> rpc, providerIndex |-> idx + 1]

\* new ethers.Contract(NFT_CONTRACT_ADDRESS, nftABI, provider)
Contract(p) == [address |-> NFT_CONTRACT_ADDRESS, provider |-> p]

-----------------------------------------------------------------------------
(* What the outside world can answer *)

\* addresses ownerOf returns (checksummed, mixed case)
ChainOwners == {"0xAb", "0xCd"}
\* strings tokenURI returns
TokenURIs == {"ipfs://QmMeta"}
\* err.message of a rejected chain query; NULL: an error without a message
RpcErrors ==
    {"execution reverted: ERC721: owner query for nonexistent token",
     "could not detect network", NULL}
\* err.message?.includes("nonexistent token")
IncludesNonexistentToken(message) ==
    message = "execution reverted: ERC721: owner query for nonexistent token"

\* documents a gateway can serve; NullRec is the JSON document null
MetadataDocs ==
    { [name |-> "Foo", image |-> "ipfs://QmImg", image_url |-> UNDEFINED],
      [name |-> "", image |-> UNDEFINED, image_url |-> "https://cdn/img.png"],
      [name |-> UNDEFINED, image |-> UNDEFINED, image_url |-> UNDEFINED],
      NullRec }

\* rows the table can hold for a token before a run
Row(key, buyer, order, price, hash) ==
    [ tokenid |-> key, nft_contract |-> NFT_CONTRACT_ADDRESS,
      marketplace_contract |-> MARKETPLACE_CONTRACT_ADDRESS,
      buyer_address |-> buyer, on_chain |-> TRUE, name |-> "old name",
      image |-> NULL, updatedat |-> "earlier",
      seaport_order |-> order, price |-> price, order_hash |-> hash ]
PriorRows(key) ==
    { NullRec,
      Row(key, "0xab", "order-1", "1.5", "0xhash-1"),
      Row(key, "0xAb", "order-2", NULL, "0xhash-2"),
      Row(key, NULL, "order-3", "3.5", "0xhash-3"),
      Row(key, "", "order-4", "4.5", "0xhash-4") }

\* the table read at a key; NullRec when there is no such row
RowOf(table, key) == IF key \in DOMAIN table THEN table[key] ELSE NullRec

-----------------------------------------------------------------------------
(* Strings the helpers take apart, as sequences of characters *)

\* String.prototype.startsWith
StartsWith(s, prefix) ==
    /\ Len(prefix) <= Len(s)
    /\ SubSeq(s, 1, Len(prefix)) = prefix

\* String.prototype.indexOf, counted from 1; 0 when there is no occurrence
IndexOf(s, part) ==
    LET at == {k \in 1..(Len(s) - Len(part) + 1) :
                  SubSeq(s, k, k + Len(part) - 1) = part}
    IN  IF at = {} THEN 0 ELSE CHOOSE k \in at : \A m \in at : k <= m

\* String.prototype.includes
Includes(s, part) == IndexOf(s, part) # 0

\* String.prototype.replace with a string pattern: the first occurrence only
Replace(s, pattern, replacement) ==
    LET k == IndexOf(s, pattern)
    IN  IF k = 0 THEN s
        ELSE SubSeq(s, 1, k - 1) \o replacement
                \o SubSeq(s, k + Len(pattern), Len(s))

\* s.split(separator)[1]: what stands between the first occurrence of the
\* separator and the next one, or the end
SplitSecond(s, separator) ==
    LET k == IndexOf(s, separator)
        rest == SubSeq(s, k + Len(separator), Len(s))
        m == IndexOf(rest, separator)
    IN  IF m = 0 THEN rest ELSE SubSeq(rest, 1, m - 1)

\* the literals of lines 64-88
HTTP == <<"h", "t", "t", "p">>
IPFS == <<"i", "p", "f", "s">>
IPFS_SCHEME == <<"i", "p", "f", "s", ":", "/", "/">>
IPFS_PATH == <<"/", "i", "p", "f", "s", "/">>
DEFAULT_GATEWAY ==
    <<"h", "t", "t", "p", "s", ":", "/", "/", "i", "p", "f", "s", ".", "i",
      "o", "/", "i", "p", "f", "s", "/">>

\* lines 31-36
IPFS_GATEWAYS ==
    <<
      <<"h", "t", "t", "p", "s", ":", "/", "/", "d", "w", "e", "b", ".", "l",
        "i", "n", "k", "/", "i", "p", "f", "s", "/">>,
      <<"h", "t", "t", "p", "s", ":", "/", "/", "i", "p", "f", "s", ".", "i",
        "o", "/", "i", "p", "f", "s", "/">>,
      <<"h", "t", "t", "p", "s", ":", "/", "/", "g", "a", "t", "e", "w", "a",
        "y", ".", "p", "i", "n", "a", "t", "a", ".", "c", "l", "o", "u", "d",
        "/", "i", "p", "f", "s", "/">>,
      <<"h", "t", "t", "p", "s", ":", "/", "/", "c", "l", "o", "u", "d", "f",
        "l", "a", "r", "e", "-", "i", "p", "f", "s", ".", "c", "o", "m", "/",
        "i", "p", "f", "s", "/">>
    >>

-----------------------------------------------------------------------------
(* resolveLink, lines 64-70 *)

\* a string value; null and undefined are NullRec and UndefRec
Str(chars) == [chars |-> chars]
Falsy(v) == v \in {NullRec, UndefRec} \/ v = Str(<<>>)

\* a slip in line 66: the scheme is replaced wherever it stands
ResolveLink_Anywhere(uri, gateway) ==
    LET g == IF gateway = UndefRec THEN Str(DEFAULT_GATEWAY) ELSE gateway
    IN  IF Falsy(uri) THEN NullRec
        ELSE Str(Replace(uri.chars, IPFS_SCHEME, g.chars))

\* lines 64-70; an undefined gateway takes the default of line 64
ResolveLink(uri, gateway) ==
    LET g == IF gateway = UndefRec THEN Str(DEFAULT_GATEWAY) ELSE gateway
    IN  IF Falsy(uri) THEN NullRec
        ELSE IF StartsWith(uri.chars, IPFS_SCHEME)
        THEN Str(Replace(uri.chars, IPFS_SCHEME, g.chars))
        ELSE uri

\* no resolveLink call is followed; a call with its arguments; its return
NoLink == [pc |-> "none", uri |-> UndefRec, gateway |-> UndefRec, result |-> UndefRec]
LinkCall(uri, gateway) ==
    [pc |-> "call", uri |-> uri, gateway |-> gateway, result |-> UndefRec]

-----------------------------------------------------------------------------
(* fetchMetadataWithRetry, lines 73-111 *)

\* how one GET can end: a response that is not ok, a rejected or aborted
\* fetch, a body that is not JSON, or an ok response with a JSON body
FailedOutcomes == {"not ok", "aborted", "invalid json"}
Bodies ==
    { [name |-> "Foo", image |-> "ipfs://QmImg", image_url |-> UNDEFINED],
      NullRec }
Answers ==
    {[outcome |-> o, body |-> UndefRec] : o \in FailedOutcomes}
      \cup {[outcome |-> "ok", body |-> b] : b \in Bodies}

\* line 75: the test that lets the direct GET happen
IsDirectHttp(tokenURI) ==
    StartsWith(tokenURI, HTTP) /\ ~Includes(tokenURI, IPFS)

\* lines 83-88
IpfsHash(tokenURI) ==
    IF StartsWith(tokenURI, IPFS_SCHEME) THEN Replace(tokenURI, IPFS_SCHEME, <<>>)
    ELSE IF Includes(tokenURI, IPFS_PATH) THEN SplitSecond(tokenURI, IPFS_PATH)
    ELSE tokenURI

\* a slip in lines 101-104: any response is read as the document
Succeeded_AnyResponse(answer) == answer.outcome \in {"ok", "not ok"}

\* lines 78 and 101-104: the response is ok and its body parsed
Succeeded(answer) == answer.outcome = "ok"

\* no fetch is followed; a call with its argument
NoFetch ==
    [pc |-> "none", tokenURI |-> <<>>, direct |-> FALSE, ipfsHash |-> <<>>,
     k |-> 0, requests |-> <<>>, answers |-> <<>>, result |-> UndefRec]
FetchCall(tokenURI) == [NoFetch EXCEPT !.pc = "call", !.tokenURI = tokenURI]

\* lines 91-110: the loop at gateway k; the GET of line 98 is issued, or the
\* gateways are used up and line 110 throws
GatewayLoop(f, k) ==
    IF k <= Len(IPFS_GATEWAYS)
    THEN [f EXCEPT !.pc = "gateway", !.k = k,
                   !.requests = Append(@, IPFS_GATEWAYS[k] \o f.ipfsHash)]
    ELSE [f EXCEPT !.pc = "thrown", !.k = 0]

\* lines 83-91: the identifier is cut out and the loop entered
EnterLoop(f) == GatewayLoop([f EXCEPT !.ipfsHash = IpfsHash(f.tokenURI)], 1)

\* lines 73-98 up to the first await
FetchStarts ==
    /\ fetch.pc = "call"
    /\ fetch' = IF IsDirectHttp(fetch.tokenURI)
                THEN [fetch EXCEPT !.pc = "direct", !.direct = TRUE,
                                   !.requests = <<fetch.tokenURI>>]
                ELSE EnterLoop(fetch)
    /\ UNCHANGED <<RPC_LIST, providerIndex, provider, nftContract, metadataTable,
                   mainpc, totalSupply, i, batch, task, batches, world, link,
                   getProviderLog>>

\* lines 77-79 settle
DirectSettles ==
    /\ fetch.pc = "direct"
    /\ \E answer \in Answers :
         LET f == [fetch EXCEPT !.answers = Append(@, answer)]
         IN  fetch' = IF Succeeded(answer)
                      THEN [f EXCEPT !.pc = "returned", !.result = answer.body]
                      ELSE EnterLoop(f)
    /\ UNCHANGED <<RPC_LIST, providerIndex, provider, nftContract, metadataTable,
                   mainpc, totalSupply, i, batch, task, batches, world, link,
                   getProviderLog>>

\* lines 98-108 settle for the gateway at hand
GatewaySettles ==
    /\ fetch.pc = "gateway"
    /\ \E answer \in Answers :
         LET f == [fetch EXCEPT !.answers = Append(@, answer)]
         IN  fetch' = IF Succeeded(answer)
                      THEN [f EXCEPT !.pc = "returned", !.k = 0,
                                     !.result = answer.body]
                      ELSE GatewayLoop(f, fetch.k + 1)
    /\ UNCHANGED <<RPC_LIST, providerIndex, provider, nftContract, metadataTable,
                   mainpc, totalSupply, i, batch, task, batches, world, link,
                   getProviderLog>>

\* lines 64-70 run
ResolveLinkReturns ==
    /\ link.pc = "call"
    /\ link' = [link EXCEPT !.pc = "returned",
                            !.result = ResolveLink(link.uri, link.gateway)]
    /\ UNCHANGED <<RPC_LIST, providerIndex, provider, nftContract, metadataTable,
                   mainpc, totalSupply, i, batch, task, batches, world, fetch,
                   getProviderLog>>

-----------------------------------------------------------------------------
(* processNFT, lines 116-199 *)

\* the locals of a processNFT call that has just issued its first ownerOf
\* query
NewTask(c) ==
    [ pc |-> "ownerOf", on |-> c.provider,
      i |-> 0, owner |-> UNDEFINED, tokenURI |-> UNDEFINED,
      success |-> FALSE, name |-> UNDEFINED, image |-> UNDEFINED,
      metadata |-> UndefRec, existingData |-> UndefRec,
      shouldWipeOrder |-> FALSE, upsertData |-> UndefRec,
      result |-> "pending" ]

\* processNFT has returned: its locals are gone, result is what it logged
Returned(result) ==
    [ pc |-> "done", on |-> UNDEFINED,
      i |-> 0, owner |-> UNDEFINED, tokenURI |-> UNDEFINED,
      success |-> FALSE, name |-> UNDEFINED, image |-> UNDEFINED,
      metadata |-> UndefRec, existingData |-> UndefRec,
      shouldWipeOrder |-> FALSE, upsertData |-> UndefRec,
      result |-> result ]

\* a slip in lines 196-198: the outer catch throws the error on
CatchError_Rethrow(message) ==
    [Returned("failed: " \o message) EXCEPT !.pc = "rejected"]

\* lines 196-198: the outer catch logs and processNFT returns normally
CatchError(message) == Returned("failed: " \o message)

\* a slip in lines 128-133: the endpoint is rotated before the message is read
CatchRpcError_RotateFirst(id, message) ==
    LET gp == GetProvider(RPC_LIST, providerIndex)
        t == task[id]
    IN  /\ providerIndex' = gp.providerIndex
        /\ provider' = gp.rpc
        /\ nftContract' = Contract(gp.rpc)
        /\ getProviderLog' = Append(getProviderLog, gp.rpc)
        /\ task' = [task EXCEPT ![id] =
               IF IncludesNonexistentToken(message) THEN Returned("skipped")
               ELSE IF t.i + 1 < Len(RPC_LIST)
               THEN [t EXCEPT !.i = t.i + 1, !.pc = "ownerOf", !.on = gp.rpc]
               ELSE CatchError("RPC failed")]

\* lines 127-137: the catch of one chain attempt, then the loop's next round
CatchRpcError(id, message) ==
    IF IncludesNonexistentToken(message)
    THEN /\ task' = [task EXCEPT ![id] = Returned("skipped")]
         /\ UNCHANGED <<providerIndex, provider, nftContract, getProviderLog>>
    ELSE LET gp == GetProvider(RPC_LIST, providerIndex)
             c == Contract(gp.rpc)
             t == task[id]
         IN  /\ providerIndex' = gp.providerIndex
             /\ provider' = gp.rpc
             /\ nftContract' = c
             /\ getProviderLog' = Append(getProviderLog, gp.rpc)
             /\ task' = [task EXCEPT ![id] =
                    IF t.i + 1 < Len(RPC_LIST)
                    THEN [t EXCEPT !.i = t.i + 1, !.pc = "ownerOf", !.on = gp.rpc]
                    ELSE CatchError("RPC failed")]

\* line 123 resolves; line 124 issues tokenURI
OwnerOfResolves(id) ==
    /\ id \in DOMAIN task
    /\ task[id].pc = "ownerOf"
    /\ \E owner \in world.owners :
         task' = [task EXCEPT ![id] =
                    [@ EXCEPT !.owner = owner, !.on = nftContract.provider,
                              !.pc = "tokenURI"]]
    /\ UNCHANGED <<RPC_LIST, providerIndex, provider, nftContract, metadataTable,
                   mainpc, totalSupply, i, batch, batches, world, fetch, link,
                   getProviderLog>>

\* line 123 rejects
OwnerOfRejects(id) ==
    /\ id \in DOMAIN task
    /\ task[id].pc = "ownerOf"
    /\ task[id].on \notin world.healthy
    /\ \E message \in world.errors : CatchRpcError(id, message)
    /\ UNCHANGED <<RPC_LIST, metadataTable, mainpc, totalSupply, i, batch, batches, world,
                   fetch, link>>

\* line 124 rejects
TokenURIRejects(id) ==
    /\ id \in DOMAIN task
    /\ task[id].pc = "tokenURI"
    /\ task[id].on \notin world.healthy
    /\ \E message \in world.errors : CatchRpcError(id, message)
    /\ UNCHANGED <<RPC_LIST, metadataTable, mainpc, totalSupply, i, batch, batches, world,
                   fetch, link>>

\* line 124 resolves; lines 125-144 run up to the metadata fetch
TokenURIResolves(id) ==
    /\ id \in DOMAIN task
    /\ task[id].pc = "tokenURI"
    /\ \E uri \in TokenURIs :
         task' = [task EXCEPT ![id] =
                    [@ EXCEPT !.tokenURI = uri, !.success = TRUE, !.i = 0,
                              !.on = UNDEFINED,
                              !.name = "NFT #" \o ToString(id), !.image = NULL,
                              !.pc = "fetchMetadata"]]
    /\ UNCHANGED <<RPC_LIST, providerIndex, provider, nftContract, metadataTable,
                   mainpc, totalSupply, i, batch, batches, world, fetch, link,
                   getProviderLog>>

\* a slip in line 147: the document's name is taken even when it is empty
NameOf_NoDefault(name, metadata) ==
    IF metadata # NullRec THEN metadata.name ELSE name

\* lines 146-150: name and image out of a fetched document
NameOf(name, metadata) ==
    IF metadata # NullRec /\ Truthy(metadata.name) THEN metadata.name ELSE name
ImageOf(image, metadata) ==
    IF metadata = NullRec THEN image
    ELSE IF Truthy(metadata.image) THEN metadata.image
    ELSE IF Truthy(metadata.image_url) THEN metadata.image_url
    ELSE image

\* line 144 resolves with a document; lines 146-161 run up to the lookup
FetchMetadataResolves(id) ==
    /\ id \in DOMAIN task
    /\ task[id].pc = "fetchMetadata"
    /\ \E metadata \in world.docs :
         task' = [task EXCEPT ![id] =
                    [@ EXCEPT !.metadata = metadata,
                              !.name = NameOf(@, metadata),
                              !.image = ImageOf(@, metadata),
                              !.pc = "select"]]
    /\ UNCHANGED <<RPC_LIST, providerIndex, provider, nftContract, metadataTable,
                   mainpc, totalSupply, i, batch, batches, world, fetch, link,
                   getProviderLog>>

\* a slip in lines 151-154: the metadata error ends the call
CatchMetadataError_Skips(t) ==
    Returned("failed: Metadata fetch failed from all gateways")

\* lines 151-154: the catch logs; name and image keep the values of lines
\* 140-141 and the call goes on to the lookup of line 157
CatchMetadataError(t) ==
    [t EXCEPT !.pc = "select"]

\* line 144 rejects
FetchMetadataRejects(id) ==
    /\ id \in DOMAIN task
    /\ task[id].pc = "fetchMetadata"
    /\ task' = [task EXCEPT ![id] = CatchMetadataError(@)]
    /\ UNCHANGED <<RPC_LIST, providerIndex, provider, nftContract, metadataTable,
                   mainpc, totalSupply, i, batch, batches, world, fetch, link,
                   getProviderLog>>

\* line 159: the columns the lookup selects
SelectColumns(row) ==
    [ buyer_address |-> row.buyer_address, seaport_order |-> row.seaport_order,
      price |-> row.price, order_hash |-> row.order_hash ]

\* a slip in line 164: the two addresses are compared as they are written
ShouldWipeOrder_CaseSensitive(existingData, owner) ==
    /\ existingData # NullRec
    /\ Truthy(existingData.buyer_address)
    /\ existingData.buyer_address # owner

\* lines 163-166
ShouldWipeOrder(existingData, owner) ==
    /\ existingData # NullRec
    /\ Truthy(existingData.buyer_address)
    /\ ToLowerCase(existingData.buyer_address) # ToLowerCase(owner)

\* lines 169-188
UpsertData(id, owner, name, image, existingData, shouldWipeOrder) ==
    LET keep == ~shouldWipeOrder /\ existingData # NullRec
    IN  [ tokenid |-> ToString(id),
          nft_contract |-> NFT_CONTRACT_ADDRESS,
          marketplace_contract |-> MARKETPLACE_CONTRACT_ADDRESS,
          buyer_address |-> ToLowerCase(owner),
          on_chain |-> TRUE,
          name |-> name,
          image |-> image,
          updatedat |-> "now",
          seaport_order |-> IF keep THEN existingData.seaport_order ELSE NULL,
          price |-> IF keep THEN existingData.price ELSE NULL,
          order_hash |-> IF keep THEN existingData.order_hash ELSE NULL ]

\* what .single() hands back as data: the selected columns of the row, or
\* null when there is no row or the lookup itself failed
LookupOutcomes == {"answered", "error"}
SingleData(table, key, outcome) ==
    IF outcome = "answered" /\ RowOf(table, key) # NullRec
    THEN SelectColumns(RowOf(table, key))
    ELSE NullRec

\* lines 157-161 settle; lines 163-191 run up to the upsert
SelectSettles(id) ==
    /\ id \in DOMAIN task
    /\ task[id].pc = "select"
    /\ \E outcome \in LookupOutcomes :
         LET t == task[id]
             existingData == SingleData(metadataTable, ToString(id), outcome)
             wipe == ShouldWipeOrder(existingData, t.owner)
         IN  task' = [task EXCEPT ![id] =
                    [t EXCEPT !.existingData = existingData,
                              !.shouldWipeOrder = wipe,
                              !.upsertData = UpsertData(id, t.owner, t.name, t.image,
                                                        existingData, wipe),
                              !.pc = "upsert"]]
    /\ UNCHANGED <<RPC_LIST, providerIndex, provider, nftContract, metadataTable,
                   mainpc, totalSupply, i, batch, batches, world, fetch, link,
                   getProviderLog>>

\* upsert(row, { onConflict: "tokenid" })
Upsert(table, row) ==
    [k \in DOMAIN table \cup {row.tokenid} |->
        IF k = row.tokenid THEN row ELSE table[k]]

\* line 191 settles, with or without an error; lines 193-194 log it
UpsertSettles(id) ==
    /\ id \in DOMAIN task
    /\ task[id].pc = "upsert"
    /\ \E error \in {NULL, "db error"} :
         IF error # NULL
         THEN /\ task' = [task EXCEPT ![id] = Returned("db error")]
              /\ UNCHANGED metadataTable
         ELSE /\ task' = [task EXCEPT ![id] = Returned("synced")]
              /\ metadataTable' = Upsert(metadataTable, task[id].upsertData)
    /\ UNCHANGED <<RPC_LIST, providerIndex, provider, nftContract,
                   mainpc, totalSupply, i, batch, batches, world, fetch, link,
                   getProviderLog>>

-----------------------------------------------------------------------------
(* main, lines 204-225 *)

\* a slip in line 214: the last id is left out
Batch_OffByOne(iv, supply) ==
    SelectSeq([j \in 1..BATCH_SIZE |-> iv + (j - 1)], LAMBDA id : id < supply)

\* lines 212-215: the ids of the batch that starts at iv
Batch(iv, supply) ==
    SelectSeq([j \in 1..BATCH_SIZE |-> iv + (j - 1)], LAMBDA id : id <= supply)

Range(seq) == {seq[k] : k \in DOMAIN seq}

\* a slip in line 218: main goes on once any task of the batch is done
AllSettled_Any(ids) == \E id \in ids : task[id].pc = "done"

\* line 218: Promise.all lets main go on once every task of the batch is done
AllSettled(ids) == \A id \in ids : task[id].pc = "done"

\* a slip in line 211: the loop stops one id short of the supply
ForLoop_StopsEarly(iv, supply) ==
    IF iv < supply
    THEN LET b == Batch(iv, supply)
         IN  /\ batch' = b
             /\ batches' = Append(batches, b)
             /\ task' = [id \in DOMAIN task \cup Range(b) |->
                           IF id \in Range(b) THEN NewTask(nftContract)
                           ELSE task[id]]
             /\ mainpc' = "Promise.all"
    ELSE /\ mainpc' = "done"
         /\ UNCHANGED <<batch, batches, task>>

\* lines 211-221: the loop test at iv; either the next batch is formed and
\* every one of its tasks runs to its first await, or main ends
ForLoop(iv, supply) ==
    IF iv <= supply
    THEN LET b == Batch(iv, supply)
         IN  /\ batch' = b
             /\ batches' = Append(batches, b)
             /\ task' = [id \in DOMAIN task \cup Range(b) |->
                           IF id \in Range(b) THEN NewTask(nftContract)
                           ELSE task[id]]
             /\ mainpc' = "Promise.all"
    ELSE /\ mainpc' = "done"
         /\ UNCHANGED <<batch, batches, task>>

\* line 206 resolves with some supply
TotalSupplyResolves ==
    /\ mainpc = "totalSupply"
    /\ \E n \in world.supplies :
         /\ totalSupply' = n
         /\ i' = 1
         /\ ForLoop(1, n)
    /\ UNCHANGED <<RPC_LIST, providerIndex, provider, nftContract, metadataTable,
                   world, fetch, link,
                   getProviderLog>>

\* a slip in lines 222-224: a failed supply read rotates the endpoint and
\* reads again, as the chain read of a token does
CatchFatal_Retry ==
    LET gp == GetProvider(RPC_LIST, providerIndex)
    IN  /\ providerIndex' = gp.providerIndex
        /\ provider' = gp.rpc
        /\ nftContract' = Contract(gp.rpc)
        /\ getProviderLog' = Append(getProviderLog, gp.rpc)
        /\ UNCHANGED mainpc

\* lines 222-224: the catch of main logs the error and main returns
CatchFatal ==
    /\ mainpc' = "fatal"
    /\ UNCHANGED <<providerIndex, provider, nftContract, getProviderLog>>

\* line 206 rejects
TotalSupplyRejects ==
    /\ mainpc = "totalSupply"
    /\ CatchFatal
    /\ UNCHANGED <<RPC_LIST, metadataTable, totalSupply, i, batch, task, batches, world,
                   fetch, link>>

\* line 218 settles: a rejected task rejects Promise.all at once (lines
\* 222-224); otherwise main goes on when the whole batch is done
PromiseAllSettles ==
    /\ mainpc = "Promise.all"
    /\ IF \E id \in Range(batch) : task[id].pc = "rejected"
       THEN /\ CatchFatal
            /\ UNCHANGED <<i, batch, batches, task>>
       ELSE /\ AllSettled(Range(batch))
            /\ i' = i + BATCH_SIZE
            /\ ForLoop(i + BATCH_SIZE, totalSupply)
            /\ UNCHANGED <<providerIndex, provider, nftContract, getProviderLog>>
    /\ UNCHANGED <<RPC_LIST, metadataTable, totalSupply, world,
                   fetch, link>>

-----------------------------------------------------------------------------
(* The program *)

\* lines 38-57 and 227: the module is loaded with the primary endpoint set or
\* absent, getProvider() has been called once, and main() waits for totalSupply
ModuleLoaded(primary, table, w) ==
    LET list == RpcList(primary)
        gp == GetProvider(list, 0)
    IN  /\ RPC_LIST = list
        /\ providerIndex = gp.providerIndex
        /\ provider = gp.rpc
        /\ nftContract = Contract(gp.rpc)
        /\ getProviderLog = <<gp.rpc>>
        /\ metadataTable = table
        /\ world = w
        /\ mainpc = "totalSupply"
        /\ totalSupply = 0
        /\ i = 0
        /\ batch = <<>>
        /\ task = <<>>
        /\ batches = <<>>

\* the program as it is run: no helper is followed on its own
InitWith(primary, table, w) ==
    /\ ModuleLoaded(primary, table, w)
    /\ fetch = NoFetch
    /\ link = NoLink

Keys(n) == {ToString(id) : id \in 1..n}
Tables(n) ==
    {table \in [Keys(n) -> UNION {PriorRows(k) : k \in Keys(n)}] :
        \A k \in Keys(n) : table[k] \in PriorRows(k)}

\* token 1 has no row yet, or a listed row of the owner the chain reports
PlainTables ==
    {table \in Tables(1) :
        table["1"] \in {NullRec, Row("1", "0xab", "order-1", "1.5", "0xhash-1")}}

\* every answer the model knows, for few tokens
FullWorld ==
    [owners |-> ChainOwners, docs |-> MetadataDocs, supplies |-> 0..MaxSupply,
     errors |-> RpcErrors, healthy |-> {}]
\* one owner and one document, for more tokens at a time
PlainWorld ==
    [owners |-> {"0xAb"},
     docs |-> {[name |-> "Foo", image |-> "ipfs://QmImg", image_url |-> UNDEFINED]},
     supplies |-> 0..MaxConcurrent,
     errors |-> RpcErrors \ {NULL}, healthy |-> {}]

Next ==
    \/ TotalSupplyResolves
    \/ TotalSupplyRejects
    \/ \E id \in DOMAIN task : OwnerOfResolves(id)
    \/ \E id \in DOMAIN task : OwnerOfRejects(id)
    \/ \E id \in DOMAIN task : TokenURIResolves(id)
    \/ \E id \in DOMAIN task : TokenURIRejects(id)
    \/ \E id \in DOMAIN task : FetchMetadataResolves(id)
    \/ \E id \in DOMAIN task : FetchMetadataRejects(id)
    \/ \E id \in DOMAIN task : SelectSettles(id)
    \/ \E id \in DOMAIN task : UpsertSettles(id)
    \/ PromiseAllSettles

\* one sweep over a table with any prior rows, every answer possible
Init ==
    \E primary \in EnvPrimary, table \in Tables(MaxSupply) :
        InitWith(primary, table, FullWorld)
Spec == Init /\ [][Next]_vars

\* one sweep with several tasks in flight
InitConcurrent ==
    \E primary \in EnvPrimary, table \in PlainTables :
        InitWith(primary, table, PlainWorld)
SpecConcurrent == InitConcurrent /\ [][Next]_vars

\* one sweep with several tasks in flight, the primary endpoint set, one
\* endpoint of RPC_LIST that answers every query and tokens that all exist
HealthyWorld(rpc) ==
    [PlainWorld EXCEPT !.errors = {"could not detect network"}, !.healthy = {rpc}]
InitFailover ==
    \E rpc \in Range(RpcList("https://primary.rpc")) :
        InitWith("https://primary.rpc", <<>>, HealthyWorld(rpc))
SpecFailover == InitFailover /\ [][Next]_vars

\* the listing subsystem, which shares the table of lines 157-191 with this
\* program, lists the token of an existing row anew
ExternalListing ==
    [seaport_order |-> "order-9", price |-> "9.5", order_hash |-> "0xhash-9"]
ExternalWrites(key) ==
    /\ RowOf(metadataTable, key) # NullRec
    /\ metadataTable[key].seaport_order # ExternalListing.seaport_order
    /\ metadataTable' = [metadataTable EXCEPT ![key] =
           [@ EXCEPT !.seaport_order = ExternalListing.seaport_order,
                     !.price = ExternalListing.price,
                     !.order_hash = ExternalListing.order_hash]]
    /\ UNCHANGED <<RPC_LIST, providerIndex, provider, nftContract, mainpc,
                   totalSupply, i, batch, task, batches, world, fetch, link,
                   getProviderLog>>

\* one sweep while the listing subsystem is at work
NextExternal ==
    \/ TotalSupplyResolves
    \/ TotalSupplyRejects
    \/ \E id \in DOMAIN task : OwnerOfResolves(id)
    \/ \E id \in DOMAIN task : OwnerOfRejects(id)
    \/ \E id \in DOMAIN task : TokenURIResolves(id)
    \/ \E id \in DOMAIN task : TokenURIRejects(id)
    \/ \E id \in DOMAIN task : FetchMetadataResolves(id)
    \/ \E id \in DOMAIN task : FetchMetadataRejects(id)
    \/ \E id \in DOMAIN task : SelectSettles(id)
    \/ \E id \in DOMAIN task : UpsertSettles(id)
    \/ PromiseAllSettles
    \/ \E key \in DOMAIN metadataTable : ExternalWrites(key)
SpecExternal == Init /\ [][NextExternal]_vars

\* lines 116-199 as main sees them: a started processNFT call returns
ProcessNFTSettles(id) ==
    /\ id \in DOMAIN task
    /\ task[id].pc = "ownerOf"
    /\ task' = [task EXCEPT ![id] = Returned("settled")]
    /\ UNCHANGED <<RPC_LIST, providerIndex, provider, nftContract, metadataTable,
                   mainpc, totalSupply, i, batch, batches, world, fetch, link,
                   getProviderLog>>

\* lines 123-124, 102, 157-161 and 191: an await of a started processNFT call
\* that nothing bounds in time never settles, and the call never returns
ProcessNFTHangs(id) ==
    /\ id \in DOMAIN task
    /\ task[id].pc = "ownerOf"
    /\ \A other \in DOMAIN task : task[other].pc # "hung"
    /\ task' = [task EXCEPT ![id] = [@ EXCEPT !.pc = "hung"]]
    /\ UNCHANGED <<RPC_LIST, providerIndex, provider, nftContract, metadataTable,
                   mainpc, totalSupply, i, batch, batches, world, fetch, link,
                   getProviderLog>>

\* the batching alone, for any supply a few batches long
MainWorld ==
    [owners |-> {}, docs |-> {}, supplies |-> 0..MaxTotalSupply,
     errors |-> {}, healthy |-> {}]
InitMain == InitWith("https://primary.rpc", <<>>, MainWorld)
NextMain ==
    \/ TotalSupplyResolves
    \/ TotalSupplyRejects
    \/ \E id \in DOMAIN task : ProcessNFTSettles(id)
    \/ PromiseAllSettles
SpecMain == InitMain /\ [][NextMain]_vars

\* the batching when one call of the run may hang
NextHang ==
    \/ TotalSupplyResolves
    \/ TotalSupplyRejects
    \/ \E id \in DOMAIN task : ProcessNFTSettles(id)
    \/ \E id \in DOMAIN task : ProcessNFTHangs(id)
    \/ PromiseAllSettles
SpecHang == InitMain /\ [][NextHang]_vars

\* one sweep in which every call that is awaited settles in the end
LiveWorld == [PlainWorld EXCEPT !.supplies = 0..MaxLive]
InitLive ==
    \E primary \in EnvPrimary : InitWith(primary, <<>>, LiveWorld)
SpecLive == InitLive /\ [][Next]_vars /\ WF_vars(Next)

-----------------------------------------------------------------------------
(* Properties of the reconciliation, lines 157-191 *)

\* the three listing columns of a row
Listing(row) == <<row.seaport_order, row.price, row.order_hash>>
NoListing == <<NULL, NULL, NULL>>

\* the calls that have built the row they are about to upsert
Upserting == {id \in DOMAIN task : task[id].pc = "upsert"}

\* C1: whenever the lookup returned a prior record whose owner_address
\* differs, case-insensitively, from the owner read from chain - whatever the
\* prior owner_address is, an address, null or empty - the row handed to the
\* upsert has its three listing columns null.
C1_WipedWhenOwnerDiffers ==
    \A id \in Upserting :
        LET t == task[id]
        IN  (/\ t.existingData # NullRec
             /\ ToLowerCase(t.existingData.buyer_address) # ToLowerCase(t.owner))
            => Listing(t.upsertData) = NoListing

\* C2: whenever the lookup returned a prior record whose owner_address
\* equals, case-insensitively, the owner read from chain, the three listing
\* columns of the row handed to the upsert are those of the prior record, which
\* are those of the row in the table.
C2_CarriedWhenOwnerSame ==
    \A id \in Upserting :
        LET t == task[id]
        IN  (/\ t.existingData # NullRec
             /\ ToLowerCase(t.existingData.buyer_address) = ToLowerCase(t.owner))
            => /\ t.upsertData.seaport_order = t.existingData.seaport_order
               /\ t.upsertData.price = t.existingData.price
               /\ t.upsertData.order_hash = t.existingData.order_hash
               /\ Listing(t.upsertData) = Listing(RowOf(metadataTable, ToString(id)))

\* C2 happens: a prior row written in lower case, the chain owner in mixed
\* case, and the prior listing in the row about to be upserted
C2_Witness ==
    \E id \in Upserting :
        /\ task[id].existingData # NullRec
        /\ task[id].existingData.buyer_address = "0xab"
        /\ task[id].owner = "0xAb"
        /\ Listing(task[id].upsertData) = <<"order-1", "1.5", "0xhash-1">>

\* C3: in every step that changes a row of the table: if the row held before
\* had an owner_address equal, case-insensitively, to the owner now written,
\* the listing columns are the same after as before; and a listing is lost only
\* when the owner changed.
C3_ListingKeptInStore ==
    [][\A key \in DOMAIN metadataTable' :
          LET before == RowOf(metadataTable, key)
              after == metadataTable'[key]
          IN  (after # before /\ before # NullRec)
              => /\ ToLowerCase(before.buyer_address) = after.buyer_address
                      => Listing(after) = Listing(before)
                 /\ (Listing(after) = NoListing /\ Listing(before) # NoListing)
                      => ToLowerCase(before.buyer_address) # after.buyer_address
      ]_vars

\* C4: for a token without a row in the table, the row handed to the upsert
\* has no listing, on_chain true, the chain owner in lower case, and the name
\* "NFT #<id>" unless the fetched document has a non-empty name, which is
\* then the name.
C4_FirstRow ==
    \A id \in Upserting :
        LET t == task[id]
            row == t.upsertData
            named == t.metadata # UndefRec /\ t.metadata # NullRec
                     /\ t.metadata.name # UNDEFINED /\ t.metadata.name # ""
        IN  RowOf(metadataTable, ToString(id)) = NullRec
            => /\ Listing(row) = NoListing
               /\ row.on_chain = TRUE
               /\ row.buyer_address = ToLowerCase(t.owner)
               /\ row.buyer_address \in {"0xab", "0xcd"}
               /\ row.name = IF named THEN t.metadata.name ELSE "NFT #" \o ToString(id)

\* C4 happens both ways: a first row named by its document, and a first row
\* whose document has an empty name
C4_Witness ==
    /\ \E id \in Upserting :
        /\ RowOf(metadataTable, ToString(id)) = NullRec
        /\ task[id].metadata # UndefRec /\ task[id].metadata # NullRec
        /\ task[id].metadata.name = ""
        /\ task[id].upsertData.name = "NFT #1"
        /\ task[id].upsertData.buyer_address = "0xcd"

-----------------------------------------------------------------------------
(* Properties of the chain read, lines 121-137, and of getProvider *)

\* the calls that wait for the answer to a chain query
Reading(id) == task[id].pc \in {"ownerOf", "tokenURI"}

\* C5: the step in which a chain query of a token fails with "nonexistent
\* token" ends the call at once and leaves the endpoint binding, the cursor
\* and the table as they were; from then on the call does nothing more - no
\* query, no lookup - and the token's row is never written.
C5_NonexistentEndsTask ==
    [][\A id \in DOMAIN task :
          /\ (Reading(id) /\ task'[id].result = "skipped")
                => /\ task'[id].pc = "done"
                   /\ UNCHANGED <<provider, providerIndex, nftContract,
                                  getProviderLog, metadataTable>>
          /\ task[id].result = "skipped"
                => /\ task'[id] = task[id]
                   /\ RowOf(metadataTable', ToString(id)) = RowOf(metadataTable, ToString(id))
      ]_vars

\* C5 happens on a later attempt: the only call there is has rotated the
\* endpoint before it met the nonexistent token
C5_Witness ==
    /\ DOMAIN task = {1}
    /\ task[1].result = "skipped"
    /\ Len(getProviderLog) > 2

\* C6: for a single call: a step that handles a failed attempt binds the
\* endpoint that follows the current one in RPC_LIST, and the call retries
\* unless that was attempt len(RPC_LIST); no call is in an attempt beyond
\* len(RPC_LIST); once an attempt has succeeded its owner and pointer stay;
\* and the call that fails with "RPC failed" has used up every attempt and
\* never writes its row.
C6_FailoverOfOneTask ==
    [][\A id \in DOMAIN task :
          LET failed == Reading(id) /\ task'[id] # task[id]
                        /\ task'[id].pc \in {"ownerOf", "done"}
                        /\ task'[id].result # "skipped"
              last == task[id].i + 1 = Len(RPC_LIST)
          IN  DOMAIN task = {1} =>
              /\ Reading(id) => task[id].i < Len(RPC_LIST)
              /\ failed =>
                   /\ provider' # provider
                   /\ provider' = RPC_LIST[(providerIndex % Len(RPC_LIST)) + 1]
                   /\ nftContract'.provider = provider'
                   /\ ~last => task'[id].pc = "ownerOf" /\ task'[id].i = task[id].i + 1
                   /\ last => task'[id].result = "failed: RPC failed"
              /\ task'[id].result = "failed: RPC failed"
                   => (task[id].result = "failed: RPC failed" \/ (failed /\ last))
              /\ task[id].result = "failed: RPC failed"
                   => RowOf(metadataTable', ToString(id)) = RowOf(metadataTable, ToString(id))
              /\ (task[id].success /\ task'[id].pc # "done")
                   => /\ task'[id].owner = task[id].owner
                      /\ task'[id].tokenURI = task[id].tokenURI
      ]_vars

\* the endpoint list as getProvider serves it: the fallback for an absent primary
Served(k) == IF Truthy(RPC_LIST[k]) THEN RPC_LIST[k] ELSE FALLBACK_RPC

\* C7: with the primary set or absent: the cursor has advanced by one,
\* modulo the list length, for every call; the first call returned the first
\* endpoint (the fallback if the primary is absent); every later call
\* returned another endpoint than the call before it; and any len(RPC_LIST)
\* successive calls returned every position of the list.
C7_Rotation ==
    LET n == Len(RPC_LIST)
        calls == Len(getProviderLog)
    IN  /\ providerIndex % n = calls % n
        /\ getProviderLog[1] = Served(1)
        /\ \A k \in 2..calls : getProviderLog[k] # getProviderLog[k - 1]
        /\ \A k \in 1..(calls - n + 1) :
              {getProviderLog[j] : j \in k..(k + n - 1)} = {Served(j) : j \in 1..n}

-----------------------------------------------------------------------------
(* Properties of the run, lines 204-225 *)

InFlight == {id \in DOMAIN task : task[id].pc # "done"}

\* the row of a token carries the stamp of this run
Written(id) ==
    /\ RowOf(metadataTable, ToString(id)) # NullRec
    /\ RowOf(metadataTable, ToString(id)).updatedat = "now"

\* C8: whatever the calls of a run end with, none rejects and none takes main
\* to its fatal end: main is fatal only when no call was ever started; while
\* main waits for a batch, some step is possible; when main is done every id
\* of 1..totalSupply has a call that has returned; and a call that failed its
\* chain read has not written its row.
C8_Isolation ==
    /\ \A id \in DOMAIN task : task[id].pc # "rejected"
    /\ mainpc = "fatal" => DOMAIN task = {}
    /\ mainpc = "Promise.all" => ENABLED Next
    /\ mainpc = "done" =>
          \A id \in 1..totalSupply : id \in DOMAIN task /\ task[id].pc = "done"
    /\ \A id \in DOMAIN task :
          task[id].result \in {"skipped", "failed: RPC failed"} => ~Written(id)

\* C8 happens: a finished run in which one call failed its chain read and
\* the other synced its token
C8_Witness ==
    /\ mainpc = "done"
    /\ totalSupply = 2
    /\ task[1].result = "failed: RPC failed"
    /\ task[2].result = "synced"
    /\ Written(2)

\* C9: the calls in flight all belong to the batch formed last and are at
\* most 10; every batch formed before the last has all its calls returned;
\* and the ids of an earlier batch are below those of a later one.
C9_OneBatchAtATime ==
    /\ InFlight \subseteq Range(batch)
    /\ Cardinality(InFlight) <= 10
    /\ Len(batches) > 0 => batches[Len(batches)] = batch
    /\ \A k \in 1..(Len(batches) - 1) :
          \A id \in Range(batches[k]) : task[id].pc = "done"
    /\ \A k, l \in DOMAIN batches :
          k < l => \A a \in Range(batches[k]), b \in Range(batches[l]) : a < b

\* C9 happens: the second batch has all its ten calls in flight
C9_Witness ==
    /\ Len(batches) = 2
    /\ Cardinality(InFlight) = 10
    /\ InFlight = 11..20

RECURSIVE Flatten(_)
Flatten(seqs) == IF seqs = <<>> THEN <<>> ELSE Head(seqs) \o Flatten(Tail(seqs))

\* C10: the batches formed so far hold consecutive ids from 1 on, each once,
\* none above totalSupply, ten in every batch but possibly the last, and the
\* calls started are those of the batched ids; when main is done there are
\* ceil(totalSupply / 10) batches, they hold exactly 1..totalSupply, and the
\* last holds totalSupply mod 10 ids when that is not zero.
C10_Partition ==
    LET ids == Flatten(batches)
        n == Len(batches)
    IN  /\ ids = [k \in 1..Len(ids) |-> k]
        /\ Len(ids) <= totalSupply
        /\ DOMAIN task = Range(ids)
        /\ \A k \in 1..(n - 1) : Len(batches[k]) = 10
        /\ \A k \in 1..n : Len(batches[k]) \in 1..10
        /\ mainpc = "done" =>
              /\ Len(ids) = totalSupply
              /\ n = (totalSupply + 9) \div 10
              /\ (n > 0 /\ totalSupply % 10 # 0) => Len(batches[n]) = totalSupply % 10
              /\ (n > 0 /\ totalSupply % 10 = 0) => Len(batches[n]) = 10

\* C10 happens: a supply of 25 has been swept in batches of 10, 10 and 5
C10_Witness ==
    /\ mainpc = "done"
    /\ totalSupply = 25
    /\ Len(batches) = 3
    /\ Len(batches[1]) = 10 /\ Len(batches[2]) = 10 /\ Len(batches[3]) = 5

\* the pointers tokenURI() can hand to fetchMetadataWithRetry
TokenPointers ==
    {
      \* an ipfs:// pointer
      <<"i", "p", "f", "s", ":", "/", "/", "Q", "m", "M", "e", "t", "a">>,
      \* direct URLs
      <<"h", "t", "t", "p", "s", ":", "/", "/", "m", "e", "t", "a", ".", "i",
        "o", "/", "1", ".", "j", "s", "o", "n">>,
      <<"h", "t", "t", "p", ":", "/", "/", "m", "e", "t", "a", ".", "i", "o",
        "/", "1", ".", "j", "s", "o", "n">>,
      \* a direct URL with "ipfs" in its host name
      <<"h", "t", "t", "p", "s", ":", "/", "/", "i", "p", "f", "s", "a", "r",
        "t", ".", "i", "o", "/", "1", ".", "j", "s", "o", "n">>,
      \* gateway URLs, the second with two /ipfs/ markers
      <<"h", "t", "t", "p", "s", ":", "/", "/", "i", "p", "f", "s", ".", "i",
        "o", "/", "i", "p", "f", "s", "/", "Q", "m", "M", "e", "t", "a">>,
      <<"h", "t", "t", "p", "s", ":", "/", "/", "g", "w", ".", "i", "o", "/",
        "i", "p", "f", "s", "/", "Q", "m", "M", "e", "t", "a", "/", "i", "p",
        "f", "s", "/", "1">>,
      \* a bare identifier
      <<"Q", "m", "M", "e", "t", "a">>
    }

\* one fetchMetadataWithRetry call, any pointer, any answer to each GET
InitFetch ==
    \E tokenURI \in TokenPointers :
        /\ ModuleLoaded("https://primary.rpc", <<>>, MainWorld)
        /\ fetch = FetchCall(tokenURI)
        /\ link = NoLink
NextFetch ==
    \/ FetchStarts
    \/ DirectSettles
    \/ GatewaySettles
SpecFetch == InitFetch /\ [][NextFetch]_vars

\* the arguments of a resolveLink call: null, undefined, and strings made of
\* a head and a short tail; any configured gateway or none
Tails(n) == UNION {[1..m -> {"Q", "/"}] : m \in 0..n}
LinkHeads ==
    { <<>>, IPFS_SCHEME, <<"i", "p", "f", "s", ":", "/">>,
      <<"h", "t", "t", "p", "s", ":", "/", "/">>, <<"x">> \o IPFS_SCHEME }
LinkUris ==
    {NullRec, UndefRec}
      \cup {Str(head \o tail) : head \in LinkHeads, tail \in Tails(MaxTailLen)}
LinkGateways == {UndefRec} \cup {Str(IPFS_GATEWAYS[k]) : k \in DOMAIN IPFS_GATEWAYS}

\* one resolveLink call
InitResolve ==
    \E uri \in LinkUris, gateway \in LinkGateways :
        /\ ModuleLoaded("https://primary.rpc", <<>>, MainWorld)
        /\ fetch = NoFetch
        /\ link = LinkCall(uri, gateway)
NextResolve ==
    \/ ResolveLinkReturns
SpecResolve == InitResolve /\ [][NextResolve]_vars

-----------------------------------------------------------------------------
(* Properties of the failures main and processNFT survive *)

\* C11: the step in which the supply read fails takes main to its fatal end
\* with the endpoint binding, the cursor and the table as they were and no
\* call started; while main waits for the supply nothing but that read
\* happens; and after the fatal end nothing happens at all.
C11_SupplyReadFatal ==
    [][/\ mainpc = "totalSupply" =>
             /\ UNCHANGED <<provider, providerIndex, nftContract, getProviderLog,
                            metadataTable>>
             /\ mainpc' # "totalSupply"
             /\ mainpc' = "fatal" => task' = <<>> /\ batches' = <<>>
       /\ (mainpc = "fatal" /\ task = <<>>) => UNCHANGED vars
      ]_vars

\* C11 happens: main has ended on the failed supply read
C11_Witness ==
    /\ mainpc = "fatal"
    /\ task = <<>>
    /\ Len(getProviderLog) = 1

\* the default name of line 140
DefaultName(id) == "NFT #" \o ToString(id)

\* C12: a call whose metadata fetch was rejected goes on to the lookup with
\* the name "NFT #<id>" and a null image, builds its row with them and, when
\* the upsert succeeds, writes them; the image is never the pointer.
C12_MetadataUnavailable ==
    [][\A id \in DOMAIN task :
          LET t == task[id]
              u == task'[id]
              key == ToString(id)
          IN  /\ (t.pc = "fetchMetadata" /\ u # t /\ u.metadata = UndefRec)
                    => /\ u.pc = "select"
                       /\ u.name = DefaultName(id)
                       /\ u.image = NULL
              /\ (t.pc = "select" /\ u # t /\ t.metadata = UndefRec)
                    => /\ u.pc = "upsert"
                       /\ u.upsertData.name = DefaultName(id)
                       /\ u.upsertData.image = NULL
                       /\ u.upsertData.image # t.tokenURI
              /\ (t.pc = "upsert" /\ t.metadata = UndefRec /\ u.result = "synced")
                    => /\ metadataTable'[key].name = DefaultName(id)
                       /\ metadataTable'[key].image = NULL
      ]_vars

\* C12 happens: a call that got no metadata has built its row, with the
\* default name and no image, and is about to write it
C12_Witness ==
    \E id \in DOMAIN task :
        /\ task[id].pc = "upsert"
        /\ task[id].metadata = UndefRec
        /\ task[id].upsertData.name = "NFT #1"
        /\ task[id].upsertData.image = NULL

-----------------------------------------------------------------------------
(* Properties of the run as a whole *)

Ended == mainpc \in {"done", "fatal"}
\* the supply was read: main is past line 206 and not in the catch of a
\* failed read
SupplyRead == mainpc # "totalSupply" /\ ~(mainpc = "fatal" /\ batches = <<>>)
Completed(id) == id \in DOMAIN task /\ task[id].pc = "done"

\* C14: when every awaited call settles in the end, main ends; and when the
\* supply was read, main has ended only if the call of every id from 1 to
\* the supply has returned.
C14_Termination ==
    /\ <>Ended
    /\ [](Ended /\ SupplyRead => \A id \in 1..totalSupply : Completed(id))

\* C14 happens: main has ended after a sweep in which a call used up its
\* chain attempts and another one wrote its row
C14_Witness ==
    /\ mainpc = "done"
    /\ totalSupply = 2
    /\ task[1].result = "failed: RPC failed"
    /\ task[2].result = "synced"

\* C15: when a call hangs, the run is never stuck while another id from 1
\* to the supply has not completed: each of them, those of later batches
\* too, is started and can run to its end.
C15_HangBlocksNoOther ==
    \A id \in DOMAIN task :
        task[id].pc = "hung" =>
            \/ \A other \in (1..totalSupply) \ {id} : Completed(other)
            \/ ENABLED NextHang

-----------------------------------------------------------------------------
(* Properties of the shared endpoint binding under concurrent calls *)

\* C17: the tokenURI query of an attempt is issued on the endpoint its
\* ownerOf query was issued on, whatever other calls did to the binding while
\* the ownerOf query was pending.
C17_SameBinding ==
    [][\A id \in DOMAIN task :
          (task[id].pc = "ownerOf" /\ task'[id].pc = "tokenURI")
             => task'[id].on = task[id].on
      ]_vars

\* C18: with the primary endpoint set and one endpoint that answers every
\* query, no call for an existing token ends with "RPC failed".
C18_NoChainUnavailable ==
    \A id \in DOMAIN task : task[id].result # "failed: RPC failed"

\* C19: when the listing columns of a row were written by the listing
\* subsystem after a call's lookup read them, and the row's owner is the
\* owner the call read from chain, the call's upsert leaves the row with the
\* listing the subsystem wrote.
C19_NoLostUpdate ==
    [][\A id \in DOMAIN task :
          LET t == task[id]
              key == ToString(id)
              before == RowOf(metadataTable, key)
              after == RowOf(metadataTable', key)
          IN  ( /\ t.pc = "upsert"
                /\ task'[id].result = "synced"
                /\ t.existingData # NullRec
                /\ before # NullRec
                /\ Listing(before) # Listing(t.existingData)
                /\ Truthy(before.buyer_address)
                /\ ToLowerCase(before.buyer_address) = t.upsertData.buyer_address )
              => Listing(after) = Listing(before)
      ]_vars

-----------------------------------------------------------------------------
(* Properties of the helpers *)

\* the GETs sent to gateways and their answers, in order
GatewayRequests ==
    IF fetch.direct THEN Tail(fetch.requests) ELSE fetch.requests
GatewayAnswers ==
    IF fetch.direct /\ fetch.answers # <<>> THEN Tail(fetch.answers)
    ELSE fetch.answers

\* C13: whatever each gateway answers, the j-th GET of the loop goes to the
\* j-th configured gateway, for the one identifier, and is sent only when
\* every GET before it has been answered without success; the call returns
\* the body of the first gateway whose answer is ok and parsed, with no GET
\* after it; and it throws only when each gateway has been asked exactly
\* once and none succeeded.
C13_GatewayLoop ==
    LET requests == GatewayRequests
        answers == GatewayAnswers
    IN  /\ Len(requests) <= Len(IPFS_GATEWAYS)
        /\ \A j \in DOMAIN requests :
              /\ requests[j] = IPFS_GATEWAYS[j] \o fetch.ipfsHash
              /\ \A m \in 1..(j - 1) :
                    m \in DOMAIN answers /\ answers[m].outcome # "ok"
        /\ Len(requests) - Len(answers) \in {0, 1}
        /\ (fetch.pc = "returned" /\ answers # <<>>)
              => /\ Len(answers) = Len(requests)
                 /\ answers[Len(answers)].outcome = "ok"
                 /\ fetch.result = answers[Len(answers)].body
        /\ fetch.pc = "thrown"
              => /\ Len(requests) = Len(IPFS_GATEWAYS)
                 /\ Len(answers) = Len(IPFS_GATEWAYS)
                 /\ \A j \in DOMAIN answers : answers[j].outcome # "ok"

\* C13 happens: the third gateway answered after two gateways failed in
\* different ways
C13_Witness ==
    /\ fetch.pc = "returned"
    /\ Len(GatewayAnswers) = 3
    /\ GatewayAnswers[1].outcome = "aborted"
    /\ GatewayAnswers[2].outcome = "invalid json"
    /\ fetch.result # NullRec

\* a pointer that names a location, not content: an http(s) URL without the
\* /ipfs/ marker of a gateway path
IsDirectPointer(tokenURI) ==
    /\ StartsWith(tokenURI, HTTP \o <<":", "/", "/">>)
          \/ StartsWith(tokenURI, HTTP \o <<"s", ":", "/", "/">>)
    /\ ~Includes(tokenURI, IPFS_PATH)

\* C20: once the call has started, a direct pointer has had exactly one GET
\* of the pointer itself, before any gateway; when that GET succeeded its
\* body is the result and no gateway was asked; when it failed the gateway
\* loop was entered at the first gateway; and a content-addressed pointer
\* has had no GET of the pointer itself.
C20_DirectStep ==
    fetch.pc \in {"direct", "gateway", "returned", "thrown"} =>
        IF IsDirectPointer(fetch.tokenURI)
        THEN /\ fetch.direct
             /\ fetch.requests[1] = fetch.tokenURI
             /\ \A j \in DOMAIN GatewayRequests :
                   StartsWith(GatewayRequests[j], IPFS_GATEWAYS[j])
             /\ (fetch.answers # <<>> /\ fetch.answers[1].outcome = "ok")
                   => /\ fetch.pc = "returned"
                      /\ fetch.result = fetch.answers[1].body
                      /\ Len(fetch.requests) = 1
             /\ (fetch.answers # <<>> /\ fetch.answers[1].outcome # "ok")
                   => /\ Len(fetch.requests) >= 2
                      /\ StartsWith(fetch.requests[2], IPFS_GATEWAYS[1])
        ELSE /\ ~fetch.direct
             /\ \A j \in DOMAIN fetch.requests :
                   StartsWith(fetch.requests[j], IPFS_GATEWAYS[j])

\* the strings resolveLink takes for no pointer at all
NoPointer == {NullRec, UndefRec, Str(<<>>)}

\* C16: resolveLink returns null for a null, undefined or empty pointer; for
\* a pointer that begins with "ipfs://" the gateway base followed by what
\* stands after that prefix; and any other pointer as it is.
C16_ResolveLink ==
    link.pc = "returned" =>
        LET uri == link.uri
            g == IF link.gateway = UndefRec THEN DEFAULT_GATEWAY
                 ELSE link.gateway.chars
        IN  IF uri \in NoPointer THEN link.result = NullRec
            ELSE IF Len(uri.chars) >= 7 /\ SubSeq(uri.chars, 1, 7) = IPFS_SCHEME
            THEN link.result = Str(g \o SubSeq(uri.chars, 8, Len(uri.chars)))
            ELSE link.result = uri

\* C16 happens: a call with an ipfs:// pointer and a gateway has returned
C16_Witness ==
    /\ link.pc = "returned"
    /\ link.uri = Str(IPFS_SCHEME \o <<"Q", "/">>)
    /\ link.gateway = Str(IPFS_GATEWAYS[1])
    /\ link.result = Str(IPFS_GATEWAYS[1] \o <<"Q", "/">>)

====
